---- MODULE Spec2Model ----
(***************************************************************************)
(* Model of src/pdf_extractor_python.py: the page classification and text  *)
(* unification pipeline process_pdf with its helpers                       *)
(* extract_text_from_page, perform_ocr and count_words_and_chars.          *)
(*                                                                         *)
(* Text is a sequence of one-character strings.  The report text is a      *)
(* sequence of tokens: the literal pieces of the f-strings are one token   *)
(* each, page text contributes one token per character.                    *)
(* The PDF parser, the rasterizer and the OCR engine are external: every   *)
(* outcome they can produce is a nondeterministic choice.                  *)
(***************************************************************************)
EXTENDS Integers, Sequences, FiniteSets, TLC

\* ---------------------------------------------------------------- bounds
MaxPages == 2
DocLen == 2
ConfScale == 4
MaxDets == 3

\* ------------------------------------------------------ program constants
OcrThreshold == 50
RuleLen == 60

\* ------------------------------------------------------------ text helpers
Rep(c, n) == [i \in 1..n |-> c]

Whitespace == {" ", "\n", "\t"}

RECURSIVE LStrip(_)
LStrip(s) == IF s = <<>> THEN s
             ELSE IF Head(s) \in Whitespace THEN LStrip(Tail(s)) ELSE s

RECURSIVE RStrip(_)
RStrip(s) == IF s = <<>> THEN s
             ELSE IF s[Len(s)] \in Whitespace THEN RStrip(SubSeq(s, 1, Len(s) - 1)) ELSE s

\* str.strip()
Strip(s) == RStrip(LStrip(s))

\* len(text.split()): the number of maximal runs of non-whitespace
SplitLen(s) ==
    Cardinality({i \in 1..Len(s) :
                    /\ s[i] \notin Whitespace
                    /\ (i = 1 \/ s[i - 1] \in Whitespace)})

\* text.replace(ch, "")
Remove(s, ch) == SelectSeq(s, LAMBDA c : c # ch)

\* " ".join(texts)
RECURSIVE Join(_)
Join(texts) == IF texts = <<>> THEN <<>>
               ELSE IF Len(texts) = 1 THEN texts[1]
               ELSE texts[1] \o <<" ">> \o Join(Tail(texts))

RECURSIVE Flatten(_)
Flatten(ss) == IF ss = <<>> THEN <<>> ELSE Head(ss) \o Flatten(Tail(ss))

RECURSIVE Times(_, _)
Times(s, n) == IF n = 0 THEN <<>> ELSE s \o Times(s, n - 1)

RECURSIVE SumSeq(_)
SumSeq(s) == IF s = <<>> THEN 0 ELSE Head(s) + SumSeq(Tail(s))

\* ------------------------------------------------------------------ inputs
T_Empty == <<>>
T_Blank == <<" ", "\n">>
T_Sparse == <<"a", "\t", "b", " ", "c">>
T_Under == <<" ">> \o Rep("a", OcrThreshold - 1) \o <<"\n">>
T_Exact == Rep("a", OcrThreshold)
T_Padded == <<" ">> \o Rep("a", OcrThreshold - 2) \o <<" ", "b", "\n">>

Texts == {T_Empty, T_Blank, T_Sparse, T_Under, T_Exact, T_Padded}

\* what pdf_page.extract_text() can do: return a string, return None, raise
ExtractOutcomes ==
    {[kind |-> "text", text |-> t] : t \in Texts}
      \cup {[kind |-> "none", text |-> <<>>], [kind |-> "raise", text |-> <<>>]}

Det(b, t, c) == [bbox |-> b, text |-> t, conf |-> c]

\* what reader.readtext() returns in the pipeline runs; conf is in units of 1/ConfScale
OcrOutputs ==
    { <<>>,
      << Det("b1", <<"S", "c">>, ConfScale - 1), Det("b2", <<"n">>, ConfScale) >>,
      << Det("b1", <<"x">>, 0) >> }

\* every detection list of at most MaxDets detections with confidences on the grid
AllDetections ==
    UNION {[1..n -> {Det("b", <<"x">>, c) : c \in 0..ConfScale}] : n \in 0..MaxDets}

\* the bytes of the uploaded document, by offset
DocBytes == [i \in 1..DocLen |-> i]

\* ------------------------------------------------------------------- state
VARIABLES
    pc,                \* position in process_pdf
    cursor,            \* offset of pdf_file's read cursor
    results,           \* the results dictionary
    all_text_content,  \* the list of page blocks of the report
    page_num,          \* loop variable
    editable_text,     \* extract_text_from_page(page) of the current page
    page_info,         \* the current page's record
    pdf_bytes,         \* what pdf_file.read() returned
    images,            \* what convert_from_bytes returned
    ocr_call,          \* the last perform_ocr call: engine results and return value
    calls,             \* per page, what the collaborators were asked and answered
    tmp_files,         \* number of temporary files on disk
    doc_open,          \* how pdfplumber.open(pdf_file) ended: "no", "ok" or "raise"
    returned,          \* what process_pdf returned
    error_shown        \* st.error was called

vars == <<pc, cursor, results, all_text_content, page_num, editable_text, page_info,
          pdf_bytes, images, ocr_call, calls, tmp_files, doc_open, returned,
          error_shown>>

\* ------------------------------------------------------------- pure helpers
mut_extract_text_from_page(outcome) ==
    IF outcome.kind = "raise" THEN <<"E", "r", "r">>
    ELSE IF outcome.text # <<>> THEN outcome.text ELSE <<>>

\* try: text = pdf_page.extract_text(); return text if text else ""  except: return ""
extract_text_from_page(outcome) ==
    IF outcome.kind = "text" /\ outcome.text # <<>> THEN outcome.text ELSE <<>>

Zero == [num |-> 0, den |-> 1]

mut_perform_ocr(ocr_results) ==
    IF ocr_results = <<>>
    THEN [text |-> <<>>, conf |-> Zero, bboxes |-> <<>>]
    ELSE [text   |-> Join([i \in DOMAIN ocr_results |-> ocr_results[i].text]),
          conf   |-> [num |-> SumSeq([i \in DOMAIN ocr_results |-> ocr_results[i].conf]),
                      den |-> (Len(ocr_results) + 1) * ConfScale],
          bboxes |-> [i \in DOMAIN ocr_results |-> ocr_results[i].bbox]]

\* the return value (full_text, avg_confidence, bboxes); avg_confidence is the
\* rational num/den
perform_ocr(ocr_results) ==
    IF ocr_results = <<>>
    THEN [text |-> <<>>, conf |-> Zero, bboxes |-> <<>>]
    ELSE LET texts       == [i \in DOMAIN ocr_results |-> ocr_results[i].text]
             confidences == [i \in DOMAIN ocr_results |-> ocr_results[i].conf]
             bboxes      == [i \in DOMAIN ocr_results |-> ocr_results[i].bbox]
         IN  [text   |-> Join(texts),
              conf   |-> IF Len(confidences) > 0
                         THEN [num |-> SumSeq(confidences),
                               den |-> Len(confidences) * ConfScale]
                         ELSE Zero,
              bboxes |-> bboxes]

\* f"{confidence * 100:.1f}%": tenths of a percent, rounded half to even
FormatConfidence(conf) ==
    LET n == 1000 * conf.num
        q == n \div conf.den
        r == n % conf.den
        t == IF 2 * r > conf.den \/ (2 * r = conf.den /\ q % 2 = 1) THEN q + 1 ELSE q
    IN  ToString(t \div 10) \o "." \o ToString(t % 10) \o "%"

\* Image.fromarray(...) of the copy with one polygon drawn per bbox
draw_bboxes_on_image(image, bboxes) == <<image>> \o bboxes

mut_count_words_and_chars(text) ==
    [words |-> SplitLen(text),
     chars_with_spaces |-> Len(text),
     chars_without_spaces |-> Len(SelectSeq(text, LAMBDA c : c \notin Whitespace))]

count_words_and_chars(text) ==
    [words |-> SplitLen(text),
     chars_with_spaces |-> Len(text),
     chars_without_spaces |-> Len(Remove(Remove(text, " "), "\n"))]

mut_NeedsOcr(text) == Len(Strip(text)) <= OcrThreshold

\* len(editable_text.strip()) < 50
NeedsOcr(text) == Len(Strip(text)) < OcrThreshold

mut_HasEditable(text) == Len(text) > 0

\* len(editable_text.strip()) > 0
HasEditable(text) == Len(Strip(text)) > 0

mut_NewPageInfo(n) ==
    [page_num |-> n - 1, type |-> "", confidence |-> "N/A", text |-> <<>>,
     word_count |-> 0, preview_image |-> <<>>]

NewPageInfo(n) ==
    [page_num |-> n, type |-> "", confidence |-> "N/A", text |-> <<>>,
     word_count |-> 0, preview_image |-> <<>>]

\* the f-string appended to all_text_content
PageBlock(info) ==
    <<"\n", "PAGE ", ToString(info.page_num), " | Type: ", info.type,
      " | Confidence: ", info.confidence, "\n">>
      \o Rep("-", RuleLen) \o <<"\n">> \o info.text \o <<"\n">>

\* the header expression: adjacent literals are joined before * and + apply
Header(res) ==
    Rep("=", RuleLen)
      \o Times(<<"\n", "PDF TEXT EXTRACTION REPORT", "\n", "=">>, RuleLen)
      \o Times(<<"\n",
                 "Total Word Count: ", ToString(res.total_words), "\n",
                 "Total Character Count (with spaces): ",
                     ToString(res.total_chars_with_spaces), "\n",
                 "Total Character Count (without spaces): ",
                     ToString(res.total_chars_without_spaces), "\n",
                 "Total Pages Processed: ", ToString(res.total_pages), "\n",
                 "Editable Pages: ", ToString(res.editable_pages), "\n",
                 "Scanned Pages: ", ToString(res.scanned_pages), "\n",
                 "Hybrid Pages: ", ToString(res.hybrid_pages), "\n",
                 "=">>, RuleLen)
      \o <<"\n">>

InitResults ==
    [pages |-> <<>>, total_words |-> 0, total_chars_with_spaces |-> 0,
     total_chars_without_spaces |-> 0, total_pages |-> 0, editable_pages |-> 0,
     scanned_pages |-> 0, hybrid_pages |-> 0]

NoOcrCall == [called |-> FALSE, results |-> <<>>, ret |-> perform_ocr(<<>>)]

NewCall(outcome, text) ==
    [extract |-> outcome.kind, embedded |-> text, raster |-> "none",
     ocr |-> "none", dets |-> <<>>]

\* ----------------------------------------------------------------- actions
Init ==
    /\ pc = "start"
    /\ cursor = 0
    /\ results = InitResults
    /\ all_text_content = <<>>
    /\ page_num = 0
    /\ editable_text = <<>>
    /\ page_info = NewPageInfo(0)
    /\ pdf_bytes = <<>>
    /\ images = <<>>
    /\ ocr_call = NoOcrCall
    /\ calls = <<>>
    /\ tmp_files = 0
    /\ doc_open = "no"
    /\ returned = [kind |-> "pending", value |-> <<>>]
    /\ error_shown = FALSE

mut_ExceptHandler ==
    /\ pc' = "done"
    /\ error_shown' = TRUE
    /\ returned' = [kind |-> "results", value |-> <<results>>]

\* except Exception as e: st.error(...); return None
ExceptHandler ==
    /\ pc' = "done"
    /\ error_shown' = TRUE
    /\ returned' = [kind |-> "None", value |-> <<>>]

\* with pdfplumber.open(pdf_file) as pdf: total_pages = len(pdf.pages)
Open ==
    /\ pc = "start"
    /\ \/ /\ ExceptHandler
          /\ doc_open' = "raise"
          /\ UNCHANGED <<cursor, results>>
       \/ \E n \in 0..MaxPages, c \in 0..DocLen :
             /\ results' = [results EXCEPT !.total_pages = n]
             /\ doc_open' = "ok"
             /\ cursor' = c
             /\ pc' = "loop"
             /\ UNCHANGED <<returned, error_shown>>
    /\ UNCHANGED <<all_text_content, page_num, editable_text, page_info, pdf_bytes,
                   images, ocr_call, calls, tmp_files>>

\* the top of the loop body: extract the embedded text, make the page record
Extract ==
    /\ pc = "loop"
    /\ page_num < results.total_pages
    /\ \E outcome \in ExtractOutcomes, c \in 0..DocLen :
          /\ editable_text' = extract_text_from_page(outcome)
          /\ calls' = Append(calls, NewCall(outcome, editable_text'))
          /\ cursor' = c
    /\ page_num' = page_num + 1
    /\ page_info' = NewPageInfo(page_num')
    /\ pc' = "classify"
    /\ UNCHANGED <<doc_open, results, all_text_content, pdf_bytes, images, ocr_call, tmp_files,
                   returned, error_shown>>

\* pdf_bytes = pdf_file.read(); pdf_file.seek(0)
ReadBytes ==
    /\ pc = "classify"
    /\ NeedsOcr(editable_text)
    /\ pdf_bytes' = SubSeq(DocBytes, cursor + 1, DocLen)
    /\ cursor' = 0
    /\ pc' = "tempfile"
    /\ UNCHANGED <<doc_open, results, all_text_content, page_num, editable_text, page_info, images,
                   ocr_call, calls, tmp_files, returned, error_shown>>

\* with tempfile.NamedTemporaryFile(delete=False, ...): with pdfplumber.open(pdf_file): pass
TempFile ==
    /\ pc = "tempfile"
    /\ tmp_files' = tmp_files + 1
    /\ \E c \in 0..DocLen : cursor' = c
    /\ pc' = "raster"
    /\ UNCHANGED <<doc_open, results, all_text_content, page_num, editable_text, page_info,
                   pdf_bytes, images, ocr_call, calls, returned, error_shown>>

\* images = convert_from_bytes(pdf_bytes, first_page=page_num, last_page=page_num, dpi=200)
Rasterize ==
    /\ pc = "raster"
    /\ \/ /\ ExceptHandler
          /\ calls' = [calls EXCEPT ![page_num].raster = "raise"]
          /\ UNCHANGED images
       \/ /\ images' = <<>>
          /\ calls' = [calls EXCEPT ![page_num].raster = "empty"]
          /\ pc' = "count"
          /\ UNCHANGED <<returned, error_shown>>
       \/ /\ images' = <<"img">>
          /\ calls' = [calls EXCEPT ![page_num].raster = "image"]
          /\ pc' = "ocr"
          /\ UNCHANGED <<returned, error_shown>>
    /\ UNCHANGED <<doc_open, cursor, results, all_text_content, page_num, editable_text, page_info,
                   pdf_bytes, ocr_call, tmp_files>>

\* the if images: branch: perform_ocr, type, text, counter, confidence, preview
Ocr ==
    /\ pc = "ocr"
    /\ \/ /\ ExceptHandler
          /\ calls' = [calls EXCEPT ![page_num].ocr = "raise"]
          /\ UNCHANGED <<results, page_info, ocr_call>>
       \/ \E dets \in OcrOutputs :
             LET page_image == images[1]
                 ret == perform_ocr(dets)
                 hybrid == HasEditable(editable_text)
             IN  /\ ocr_call' = [called |-> TRUE, results |-> dets, ret |-> ret]
                 /\ calls' = [calls EXCEPT ![page_num].ocr = "ran", ![page_num].dets = dets]
                 /\ page_info' =
                       [page_info EXCEPT
                          !.type = IF hybrid THEN "Hybrid" ELSE "Scanned",
                          !.text = IF hybrid THEN editable_text \o <<"\n">> \o ret.text
                                   ELSE ret.text,
                          !.confidence = FormatConfidence(ret.conf),
                          !.preview_image = draw_bboxes_on_image(page_image, ret.bboxes)]
                 /\ results' =
                       IF hybrid
                       THEN [results EXCEPT !.hybrid_pages = @ + 1]
                       ELSE [results EXCEPT !.scanned_pages = @ + 1]
                 /\ pc' = "count"
                 /\ UNCHANGED <<returned, error_shown>>
    /\ UNCHANGED <<doc_open, cursor, all_text_content, page_num, editable_text, pdf_bytes, images,
                   tmp_files>>

\* the else: branch of the threshold test
Editable ==
    /\ pc = "classify"
    /\ ~NeedsOcr(editable_text)
    /\ page_info' = [page_info EXCEPT !.type = "Editable", !.text = editable_text]
    /\ results' = [results EXCEPT !.editable_pages = @ + 1]
    /\ pc' = "count"
    /\ UNCHANGED <<doc_open, cursor, all_text_content, page_num, editable_text, pdf_bytes, images,
                   ocr_call, calls, tmp_files, returned, error_shown>>

\* count words and characters, add to the totals, append the page and its block;
\* the locals of the iteration are dead afterwards and are cleared
Count ==
    /\ pc = "count"
    /\ LET c == count_words_and_chars(page_info.text)
           info == [page_info EXCEPT !.word_count = c.words]
       IN  /\ results' =
                 [results EXCEPT
                    !.total_words = @ + c.words,
                    !.total_chars_with_spaces = @ + c.chars_with_spaces,
                    !.total_chars_without_spaces = @ + c.chars_without_spaces,
                    !.pages = Append(@, info)]
           /\ all_text_content' = Append(all_text_content, PageBlock(info))
    /\ editable_text' = <<>>
    /\ page_info' = NewPageInfo(0)
    /\ pdf_bytes' = <<>>
    /\ images' = <<>>
    /\ ocr_call' = NoOcrCall
    /\ pc' = "loop"
    /\ UNCHANGED <<doc_open, cursor, page_num, calls, tmp_files, returned, error_shown>>

\* after the loop: header, results['extracted_text'], return results
Finish ==
    /\ pc = "loop"
    /\ page_num = results.total_pages
    /\ results' = results @@
                    [extracted_text |-> Header(results) \o Flatten(all_text_content)]
    /\ returned' = [kind |-> "results", value |-> <<results'>>]
    /\ pc' = "done"
    /\ UNCHANGED <<doc_open, cursor, all_text_content, page_num, editable_text, page_info,
                   pdf_bytes, images, ocr_call, calls, tmp_files, error_shown>>

Next ==
    \/ Open
    \/ Extract
    \/ ReadBytes
    \/ TempFile
    \/ Rasterize
    \/ Ocr
    \/ Editable
    \/ Count
    \/ Finish

Spec == Init /\ [][Next]_vars

\* ---------------------------------------------- perform_ocr on its own inputs
InitOcr ==
    /\ pc = "perform_ocr"
    /\ cursor = 0
    /\ results = InitResults
    /\ all_text_content = <<>>
    /\ page_num = 0
    /\ editable_text = <<>>
    /\ page_info = NewPageInfo(0)
    /\ pdf_bytes = <<>>
    /\ images = <<>>
    /\ ocr_call = NoOcrCall
    /\ calls = <<>>
    /\ tmp_files = 0
    /\ doc_open = "no"
    /\ returned = [kind |-> "pending", value |-> <<>>]
    /\ error_shown = FALSE

PerformOcrCall ==
    /\ pc = "perform_ocr"
    /\ \E dets \in AllDetections :
          ocr_call' = [called |-> TRUE, results |-> dets, ret |-> perform_ocr(dets)]
    /\ UNCHANGED <<doc_open, pc, cursor, results, all_text_content, page_num, editable_text,
                   page_info, pdf_bytes, images, calls, tmp_files, returned, error_shown>>

SpecOcr == InitOcr /\ [][PerformOcrCall]_vars

\* ------------------------------------------------------------------ claims
Pages == results.pages
StrippedLen(i) == Len(Strip(calls[i].embedded))
TextsOf(dets) == [k \in DOMAIN dets |-> dets[k].text]
OcrText(i) == Join(TextsOf(calls[i].dets))
NoSpaceNoNewline(text) == SelectSeq(text, LAMBDA c : c # " " /\ c # "\n")
CountType(t) == Cardinality({i \in DOMAIN Pages : Pages[i].type = t})
Raised == doc_open = "raise"
            \/ \E i \in DOMAIN calls : calls[i].raster = "raise" \/ calls[i].ocr = "raise"

C2_Original ==
    \A i \in DOMAIN Pages :
       calls[i].embedded = <<>>
         => /\ Pages[i].type = "Scanned"
            /\ Pages[i].text = OcrText(i)

\* C3: a page whose embedded text has stripped length >= 50 is typed Editable,
\* keeps the confidence 'N/A', has merged text equal to the embedded text, and
\* neither the rasterizer nor the OCR engine is called for it.
C3_Editable ==
    /\ \A i \in DOMAIN calls :
          StrippedLen(i) >= OcrThreshold
            => calls[i].raster = "none" /\ calls[i].ocr = "none"
    /\ \A i \in DOMAIN Pages :
          StrippedLen(i) >= OcrThreshold
            => /\ Pages[i].type = "Editable"
               /\ Pages[i].confidence = "N/A"
               /\ Pages[i].text = calls[i].embedded
    /\ pc \in {"tempfile", "raster", "ocr"} => Len(Strip(editable_text)) < OcrThreshold

C3_Witness ==
    \E i \in DOMAIN Pages :
       /\ calls[i].embedded = T_Padded
       /\ Pages[i].type = "Editable"
       /\ Pages[i].text = T_Padded

AllZero(dets) == \A k \in DOMAIN dets : dets[k].conf = 0
ConfSum(dets) == SumSeq([k \in DOMAIN dets |-> dets[k].conf])

\* C4 as stated: the confidence perform_ocr returns is the mean of the detection
\* confidences, lies in [0, 1], and is 0.0 if and only if there are no detections.
C4_Original ==
    ocr_call.called =>
       LET dets == ocr_call.results
           conf == ocr_call.ret.conf
       IN  /\ conf.den > 0
           /\ dets # <<>> => conf.num * Len(dets) * ConfScale = ConfSum(dets) * conf.den
           /\ 0 <= conf.num /\ conf.num <= conf.den
           /\ conf.num = 0 <=> dets = <<>>

\* C4 amended: the confidence is the mean of the detection confidences (no division
\* by zero), lies in [0, 1], is 0.0 when there are no detections, and is 0.0 also
\* when there are detections whose confidences are all 0.0, and in no other case.
C4_Amended ==
    ocr_call.called =>
       LET dets == ocr_call.results
           conf == ocr_call.ret.conf
       IN  /\ conf.den > 0
           /\ dets # <<>> => conf.num * Len(dets) * ConfScale = ConfSum(dets) * conf.den
           /\ 0 <= conf.num /\ conf.num <= conf.den
           /\ dets = <<>> => conf.num = 0
           /\ conf.num = 0 <=> AllZero(dets)

C4_Witness ==
    /\ ocr_call.called
    /\ Len(ocr_call.results) >= 2
    /\ AllZero(ocr_call.results)
    /\ ocr_call.ret.conf.num = 0

\* C5: once opening the document, rasterization or OCR has raised, process_pdf has
\* returned None and reported an error; nothing accumulated is returned.
C5_AllOrNothing ==
    /\ Raised => /\ pc = "done"
                 /\ returned = [kind |-> "None", value |-> <<>>]
                 /\ error_shown
    /\ returned.kind = "results" => ~Raised /\ ~error_shown

C5_Witness ==
    /\ pc = "done"
    /\ Len(Pages) >= 1
    /\ results.total_words > 0
    /\ calls[Len(calls)].ocr = "raise"
    /\ returned.kind = "None"

\* C6: a page whose text extractor raised or returned nothing has the empty string
\* as embedded text, takes the OCR path like any page without embedded text, and
\* never ends the run: only opening, rasterization or OCR do, and a run in which
\* none of them raised returns a record for every page.
C6_ExtractionNeverAborts ==
    /\ \A i \in DOMAIN calls :
          calls[i].extract \in {"raise", "none"}
            => /\ calls[i].embedded = <<>>
               /\ (i \in DOMAIN Pages \/ pc = "done") => calls[i].raster # "none"
               /\ i \in DOMAIN Pages
                    => /\ Pages[i].type \in {"Scanned", ""}
                       /\ Pages[i].text = OcrText(i)
    /\ pc = "classify" => returned.kind = "pending"
    /\ error_shown => Raised
    /\ (pc = "done" /\ ~Raised)
         => returned.kind = "results" /\ Len(Pages) = results.total_pages

C6_Witness ==
    /\ returned.kind = "results"
    /\ Len(Pages) >= 2
    /\ calls[1].extract = "raise"
    /\ Pages[1].type = "Scanned"

\* the positions of the page-block labels in a report
LabelAt(text) == SelectSeq([k \in 1..Len(text) |-> k], LAMBDA k : text[k] = "PAGE ")

\* C7: a successful run on a document of N pages returns exactly N page records
\* numbered 1..N in order, and the report text holds one page block per page in
\* that order, each with the page's number, type, confidence and merged text.
C7_EveryPageOnceInOrder ==
    returned.kind = "results" =>
       LET r == returned.value[1]
           at == LabelAt(r.extracted_text)
       IN  /\ Len(r.pages) = r.total_pages
           /\ Len(calls) = r.total_pages
           /\ \A i \in DOMAIN r.pages : r.pages[i].page_num = i
           /\ Len(at) = r.total_pages
           /\ \A i \in DOMAIN at :
                 /\ r.extracted_text[at[i] + 1] = ToString(i)
                 /\ r.extracted_text[at[i] + 3] = r.pages[i].type
                 /\ r.extracted_text[at[i] + 5] = r.pages[i].confidence
                 /\ SubSeq(r.extracted_text, at[i] + 8 + RuleLen,
                           at[i] + 7 + RuleLen + Len(r.pages[i].text)) = r.pages[i].text

C7_Witness ==
    /\ returned.kind = "results"
    /\ Len(returned.value[1].pages) >= 2
    /\ returned.value[1].pages[1].type = "Hybrid"

\* C8: after every page iteration and in the returned result, the three totals are
\* the sums over the appended pages of the word count, the merged-text length and
\* the merged-text length without ' ' and '\n', and each type counter is the
\* number of appended pages of that type.
C8_TotalsAreSums ==
    (pc = "loop" \/ returned.kind = "results") =>
       /\ results.total_words = SumSeq([i \in DOMAIN Pages |-> Pages[i].word_count])
       /\ results.total_chars_with_spaces =
             SumSeq([i \in DOMAIN Pages |-> Len(Pages[i].text)])
       /\ results.total_chars_without_spaces =
             SumSeq([i \in DOMAIN Pages |-> Len(NoSpaceNoNewline(Pages[i].text))])
       /\ results.editable_pages = CountType("Editable")
       /\ results.scanned_pages = CountType("Scanned")
       /\ results.hybrid_pages = CountType("Hybrid")
       /\ returned.kind = "results" => returned.value[1] = results

C8_Witness ==
    /\ pc = "loop"
    /\ Len(Pages) >= 2
    /\ \E i \in DOMAIN Pages : \E k \in DOMAIN Pages[i].text : Pages[i].text[k] = "\t"
    /\ results.editable_pages >= 1
    /\ results.hybrid_pages >= 1

\* C9 as stated: when process_pdf has returned, no temporary file created during
\* the run still exists.
C9_Original == pc = "done" => tmp_files = 0

\* C10 as stated: every rasterizer call receives the complete byte stream of the
\* document, whatever the parser did to the cursor before pdf_file.read().
C10_Original == pc = "raster" => pdf_bytes = DocBytes
====
